---- MODULE Spec2Model ----
(***************************************************************************)
(* The authentication-and-quota gate of the invoice extractor worker       *)
(* (src/src/worker.ts): login, logout, the guard in front of /api/extract, *)
(* the session records in the USERS key-value store and the caller-held    *)
(* trial cookie.                                                           *)
(*                                                                         *)
(* Conventions.  A JavaScript string that the code takes apart (a cookie   *)
(* value, a token) is a tuple of one-character strings.  null / undefined  *)
(* is the empty tuple None and a present value x is <<x>>.  An operation   *)
(* that may throw returns a record with a field "thrown".                  *)
(***************************************************************************)
EXTENDS Integers, Sequences, FiniteSets, TLC

VARIABLES kv, now, ticks, jar, req, resp, obs, last, issued, calls,
          pending, forwarded, revoked, running, phase

vars == <<kv, now, ticks, jar, req, resp, obs, last, issued, calls,
          pending, forwarded, revoked, running, phase>>

\* the histories and the handlers in progress that only one specification
\* each keeps
aux == <<pending, forwarded, revoked, running, phase>>

None == <<>>
Some(x) == <<x>>
IsSome(o) == o # <<>>
Val(o) == o[1]

(***************************************************************************)
(* Program constants                                                       *)
(***************************************************************************)
SESSION_PREFIX == "session:"
USER_PREFIX == "user:"
SESSION_TTL_SECONDS == 60 * 60 * 24 * 30
TRIAL_LIMIT == 3
TRIAL_COOKIE == "trial"
SESSION_COOKIE == "sess"
TRIAL_MAX_AGE == 60 * 60 * 24 * 7
MAX_PAGES == 10
TOOL_ITERATIONS == 120000

(***************************************************************************)
(* Bounds of the model                                                     *)
(***************************************************************************)
MaxTicks == 2
NumTokens == 2
MaxInFlight == 4
MaxForwarded == 4

(***************************************************************************)
(* Strings                                                                 *)
(***************************************************************************)
Digits == <<"0", "1", "2", "3", "4", "5", "6", "7", "8", "9">>

IsDigit(c) == \E i \in 1..10 : Digits[i] = c

DigitVal(c) == (CHOOSE i \in 1..10 : Digits[i] = c) - 1

\* String(n) for an integer n (src/src/worker.ts:227)
NatStr(n) ==
    LET len == CHOOSE d \in 1..12 : n < 10 ^ d /\ (d = 1 \/ n >= 10 ^ (d - 1))
    IN  [i \in 1..len |-> Digits[((n \div (10 ^ (len - i))) % 10) + 1]]

String(n) == IF n < 0 THEN <<"-">> \o NatStr(0 - n) ELSE NatStr(n)

\* the longest prefix of digits of s, as a number; -1 when s starts with no digit
DigitPrefix(s) ==
    LET len == CHOOSE k \in 0..Len(s) :
                  /\ \A j \in 1..k : IsDigit(s[j])
                  /\ (k < Len(s) => ~IsDigit(s[k + 1]))
        value[i \in 0..len] == IF i = 0 THEN 0 ELSE value[i - 1] * 10 + DigitVal(s[i])
    IN  IF len = 0 THEN -1 ELSE value[len]

\* s without its leading spaces
SkipSpaces(s) ==
    LET k == CHOOSE i \in 0..Len(s) :
                /\ \A j \in 1..i : s[j] = " "
                /\ (i < Len(s) => s[i + 1] # " ")
    IN  SubSeq(s, k + 1, Len(s))

\* parseInt(s, 10): leading white space, an optional sign, then digits;
\* NaN when no digit follows
parseInt(s) ==
    LET t == SkipSpaces(s)
        neg == t # <<>> /\ Head(t) = "-"
        u == IF t # <<>> /\ Head(t) \in {"-", "+"} THEN Tail(t) ELSE t
        m == DigitPrefix(u)
    IN  IF m < 0 THEN [nan |-> TRUE, n |-> 0]
        ELSE [nan |-> FALSE, n |-> IF neg THEN 0 - m ELSE m]

\* encodeURIComponent, on the characters the model uses
EncodeChar(c) ==
    CASE c = "+" -> <<"%", "2", "B">>
      [] c = "/" -> <<"%", "2", "F">>
      [] c = "%" -> <<"%", "2", "5">>
      [] c = " " -> <<"%", "2", "0">>
      [] c = ";" -> <<"%", "3", "B">>
      [] OTHER -> <<c>>

encodeURIComponent(s) ==
    LET enc[i \in 0..Len(s)] == IF i = 0 THEN <<>> ELSE enc[i - 1] \o EncodeChar(s[i])
    IN  enc[Len(s)]

\* the character a %XY escape stands for; <<>> when XY is no escape of the model
DecodeEscape(x, y) ==
    CASE x = "2" /\ y = "B" -> <<"+">>
      [] x = "2" /\ y = "F" -> <<"/">>
      [] x = "2" /\ y = "5" -> <<"%">>
      [] x = "2" /\ y = "0" -> <<" ">>
      [] x = "3" /\ y = "B" -> <<";">>
      [] OTHER -> <<>>

\* decodeURIComponent: throws URIError on a % that starts no escape
decodeURIComponent(s) ==
    LET n == Len(s)
        \* dec[i]: the text from position i on, decoded
        dec[i \in 1..(n + 1)] ==
            IF i = n + 1 THEN [thrown |-> FALSE, v |-> <<>>]
            ELSE IF s[i] # "%"
            THEN [thrown |-> dec[i + 1].thrown, v |-> <<s[i]>> \o dec[i + 1].v]
            ELSE IF i + 2 > n \/ DecodeEscape(s[i + 1], s[i + 2]) = <<>>
            THEN [thrown |-> TRUE, v |-> <<>>]
            ELSE [thrown |-> dec[i + 3].thrown,
                  v |-> DecodeEscape(s[i + 1], s[i + 2]) \o dec[i + 3].v]
    IN  dec[1]

(***************************************************************************)
(* Cookies.  A Set-Cookie header value is the sequence of its parts (the   *)
(* text between "; "); a part is [k, v]: k the pieces of the text before   *)
(* the first "=", v the text after it (None for a part with no "=").       *)
(***************************************************************************)
Part(k, v) == [k |-> <<k>>, v |-> v]

\* setCookie(name, val, {maxAge, httpOnly: true, sameSite: "None", secure: true}),
\* the options every call site passes; maxAge is None when not given
setCookie(name, val, maxAge) ==
    <<Part(name, Some(encodeURIComponent(val)))>>
    \o (IF IsSome(maxAge) THEN <<Part("Max-Age", Some(String(Val(maxAge))))>> ELSE <<>>)
    \o <<Part("Path", Some(<<"/">>)), Part("HttpOnly", None),
         Part("SameSite", Some(<<"None">>)), Part("Secure", None)>>

\* the text of a part, as pieces
PartText(p) == p.k \o (IF IsSome(p.v) THEN <<"=">> \o Val(p.v) ELSE <<>>)

\* the template `${a}, ${b}`: one string; the last part of a and the first
\* part of b become one part, the text "..., ..." between two "; "
CommaJoin(a, b) ==
    LET x == a[Len(a)]
        y == b[1]
        glued == IF IsSome(x.v)
                 THEN [k |-> x.k, v |-> Some(Val(x.v) \o <<",", " ">> \o PartText(y))]
                 ELSE [k |-> x.k \o <<",", " ">> \o y.k, v |-> y.v]
    IN  SubSeq(a, 1, Len(a) - 1) \o <<glued>> \o Tail(b)

\* getCookie(req, name): the first `name=...` of the Cookie header, decoded
getCookie(r, name) ==
    LET raw == IF name = SESSION_COOKIE THEN r.cookie.sess ELSE r.cookie.trial
    IN  IF ~IsSome(raw) THEN [thrown |-> FALSE, v |-> None]
        ELSE LET d == decodeURIComponent(Val(raw))
             IN  [thrown |-> d.thrown, v |-> IF d.thrown THEN None ELSE Some(d.v)]

(***************************************************************************)
(* Responses                                                               *)
(***************************************************************************)
Response(status, error, detail, setCookies) ==
    [status |-> status, error |-> error, detail |-> detail, setCookie |-> setCookies]

\* ok(body, env, extraHeaders): extraHeaders holds at most one Set-Cookie
ok(detail, setCookies) == Response(200, "", detail, setCookies)

\* a slip: an error response clears the session cookie
badClearsSession(error, detail, status) ==
    Response(status, error, detail,
             <<<<[k |-> <<"sess">>, v |-> Some(<<>>)], [k |-> <<"Max-Age">>, v |-> Some(<<"0">>)]>>>>)

\* bad(body, env, status): never any extra header
bad(error, detail, status) == Response(status, error, detail, <<>>)

(***************************************************************************)
(* The key-value store USERS: key -> [val, expiration]; expiration is the  *)
(* instant the store may purge the entry at (expirationTtl), None if never *)
(***************************************************************************)
Key(prefix, id) == <<prefix, id>>

kvGet(store, key) == IF key \in DOMAIN store THEN Some(store[key].val) ELSE None

kvPut(store, key, val, expiration) ==
    [k \in DOMAIN store \cup {key} |->
        IF k = key THEN [val |-> val, expiration |-> expiration] ELSE store[k]]

kvDelete(store, key) == [k \in DOMAIN store \ {key} |-> store[k]]

(***************************************************************************)
(* Password hashing                                                        *)
(***************************************************************************)
\* PBKDF2-SHA-256 of (password, salt, iterations), base64: the derivation is
\* taken to be injective, so the digest is the triple it was derived from
Digest(password, salt, iterations) ==
    [fmt |-> "b64", pw |-> password, salt |-> salt, iter |-> iterations]

\* a text that is no base64: atob throws InvalidCharacterError on it
BadSalt == "c2Fs*"

\* a slip: the digest is derived from a fixed text, not from the password
hashPasswordFixedText(password, saltB64, iterations) ==
    IF ~IsSome(saltB64) \/ Val(saltB64) = BadSalt THEN [thrown |-> TRUE, msg |-> "InvalidCharacterError", v |-> Digest("", "", 0)]
    ELSE IF ~IsSome(iterations) \/ Val(iterations) <= 0
    THEN [thrown |-> TRUE, msg |-> "TypeError", v |-> Digest("", "", 0)]
    ELSE [thrown |-> FALSE, msg |-> "", v |-> Digest("p", Val(saltB64), Val(iterations))]

\* hashPasswordPBKDF2(password, saltB64, iterations): atob(undefined) throws
\* InvalidCharacterError, deriveBits without iterations throws TypeError
hashPasswordPBKDF2(password, saltB64, iterations) ==
    IF ~IsSome(saltB64) \/ Val(saltB64) = BadSalt THEN [thrown |-> TRUE, msg |-> "InvalidCharacterError", v |-> Digest("", "", 0)]
    ELSE IF ~IsSome(iterations) \/ Val(iterations) <= 0
    THEN [thrown |-> TRUE, msg |-> "TypeError", v |-> Digest("", "", 0)]
    ELSE [thrown |-> FALSE, msg |-> "", v |-> Digest(password, Val(saltB64), Val(iterations))]

\* b64Random(24): 24 random bytes, base64; the model draws among NumTokens tokens
Token(i) == <<"T", "+", "/">> \o String(i)

Tokens == {Token(i) : i \in 1..NumTokens}

(***************************************************************************)
(* Session and trial helpers                                               *)
(***************************************************************************)
\* getSession(env, token): null for a null or empty token, else the stored JSON
getSession(store, token) ==
    IF ~IsSome(token) \/ Val(token) = <<>> THEN None
    ELSE kvGet(store, Key(SESSION_PREFIX, Val(token)))

\* a slip: the lifetime is not added to the expiration
createSessionNoTtl(store, t, username, roles, token) ==
    [kv |-> kvPut(store, Key(SESSION_PREFIX, token),
                  [username |-> username, exp |-> t, roles |-> roles],
                  Some(t + SESSION_TTL_SECONDS)),
     token |-> token, exp |-> t]

\* a slip: the roles are not copied into the record
createSessionNoRoles(store, t, username, roles, token) ==
    [kv |-> kvPut(store, Key(SESSION_PREFIX, token),
                  [username |-> username, exp |-> t + SESSION_TTL_SECONDS, roles |-> <<>>],
                  Some(t + SESSION_TTL_SECONDS)),
     token |-> token, exp |-> t + SESSION_TTL_SECONDS]

\* a slip: the record is put under the key of the user
createSessionUserKey(store, t, username, roles, token) ==
    [kv |-> kvPut(store, Key(USER_PREFIX, username),
                  [username |-> username, exp |-> t + SESSION_TTL_SECONDS, roles |-> roles],
                  Some(t + SESSION_TTL_SECONDS)),
     token |-> token, exp |-> t + SESSION_TTL_SECONDS]

\* a slip: the key of the record leaves the token out
createSessionOneKey(store, t, username, roles, token) ==
    [kv |-> kvPut(store, Key(SESSION_PREFIX, Token(1)),
                  [username |-> username, exp |-> t + SESSION_TTL_SECONDS, roles |-> roles],
                  Some(t + SESSION_TTL_SECONDS)),
     token |-> token, exp |-> t + SESSION_TTL_SECONDS]

\* createSession(env, username, roles), with the token b64Random returned
createSession(store, t, username, roles, token) ==
    LET exp == t + SESSION_TTL_SECONDS
    IN  [kv |-> kvPut(store, Key(SESSION_PREFIX, token),
                      [username |-> username, exp |-> exp, roles |-> roles],
                      Some(t + SESSION_TTL_SECONDS)),
         token |-> token, exp |-> exp]

\* a slip: the key is built with the wrong prefix
destroySessionWrongKey(store, token) ==
    IF ~IsSome(token) \/ Val(token) = <<>> THEN store
    ELSE kvDelete(store, Key(USER_PREFIX, Val(token)))

\* a slip: the record is kept and marked as expired
destroySessionExpire(store, token) ==
    IF ~IsSome(token) \/ Val(token) = <<>> THEN store
    ELSE IF Key(SESSION_PREFIX, Val(token)) \notin DOMAIN store THEN store
    ELSE kvPut(store, Key(SESSION_PREFIX, Val(token)),
               [store[Key(SESSION_PREFIX, Val(token))].val EXCEPT !.exp = 0],
               store[Key(SESSION_PREFIX, Val(token))].expiration)

\* a slip: every session record is deleted
destroySessionAll(store, token) ==
    IF ~IsSome(token) \/ Val(token) = <<>> THEN store
    ELSE [k \in {j \in DOMAIN store : j[1] # SESSION_PREFIX} |-> store[k]]

\* destroySession(env, token)
destroySession(store, token) ==
    IF ~IsSome(token) \/ Val(token) = <<>> THEN store
    ELSE kvDelete(store, Key(SESSION_PREFIX, Val(token)))

\* readTrialCookie(req): parseInt(v || "0", 10), 0 when that is not finite
readTrialCookie(r) ==
    LET c == getCookie(r, TRIAL_COOKIE)
        v == IF ~IsSome(c.v) \/ Val(c.v) = <<>> THEN <<"0">> ELSE Val(c.v)
        n == parseInt(v)
    IN  [thrown |-> c.thrown, n |-> IF n.nan THEN 0 ELSE n.n]

\* a slip: the limit itself still passes
trialExceededOffByOne(n) == n > TRIAL_LIMIT

trialExceeded(n) == n >= TRIAL_LIMIT

(***************************************************************************)
(* What a handler did, beside its response: the guard's decision and the   *)
(* calls made to the upstream extraction API                               *)
(***************************************************************************)
Obs(mode, username, roles, count, upstream) ==
    [mode |-> mode, username |-> username, roles |-> roles, count |-> count,
     upstream |-> upstream]

NoObs == Obs("none", "", <<>>, 0, 0)

\* a handler's outcome: thrown is an exception that leaves the handler
Outcome(response, store, o) ==
    [thrown |-> FALSE, msg |-> "", resp |-> response, kv |-> store, obs |-> o]

Throw(msg, store, o) ==
    [thrown |-> TRUE, msg |-> msg, resp |-> bad("", "", 0), kv |-> store, obs |-> o]

\* String.prototype.trim on the user names of the model
Trim(s) ==
    CASE s = " a" -> "a"
      [] s = "a " -> "a"
      [] s = " " -> ""
      [] OTHER -> s

(***************************************************************************)
(* POST /api/login                                                         *)
(***************************************************************************)
\* a slip: the comparison is the wrong way round
ExpiredInverted(doc, t) ==
    IsSome(doc.expires) /\ Val(doc.expires).valid /\ Val(doc.expires).time > t

\* doc.expires && new Date(doc.expires).getTime() < Date.now(); the time of an
\* invalid date is NaN, which is below nothing
Expired(doc, t) ==
    IsSome(doc.expires) /\ Val(doc.expires).valid /\ Val(doc.expires).time < t

\* the body of handleLogin's try block; thrown is what its catch receives
LoginTry(r, store, t, tok) ==
    IF ~IsSome(r.body) THEN Throw("SyntaxError", store, NoObs)
    ELSE
    LET body == Val(r.body)
        username == Trim(IF IsSome(body.username) THEN Val(body.username) ELSE "")
        password == IF IsSome(body.password) THEN Val(body.password) ELSE ""
        doc == kvGet(store, Key(USER_PREFIX, username))
    IN  IF username = "" \/ password = ""
        THEN Outcome(bad("username and password are required", "", 400), store, NoObs)
        ELSE IF ~IsSome(doc)
        THEN Outcome(bad("invalid_credentials", "", 401), store, NoObs)
        ELSE IF Expired(Val(doc), t)
        THEN Outcome(bad("account_expired", "", 403), store, NoObs)
        ELSE
        LET derived == hashPasswordPBKDF2(password, Val(doc).salt, Val(doc).iterations)
        IN  IF derived.thrown THEN Throw(derived.msg, store, NoObs)
            ELSE IF derived.v # Val(doc).hash
            THEN Outcome(bad("invalid_credentials", "", 401), store, NoObs)
            ELSE
            LET roles == IF IsSome(Val(doc).roles) THEN Val(Val(doc).roles) ELSE <<>>
                session == createSession(store, t, username, roles, tok)
                cookie == setCookie(SESSION_COOKIE, session.token, Some(SESSION_TTL_SECONDS))
                clearTrial == setCookie(TRIAL_COOKIE, <<"0">>, Some(0))
            IN  Outcome(ok(username, <<CommaJoin(cookie, clearTrial)>>), session.kv,
                        Obs("login", username, roles, 0, 0))

\* handleLogin: its own catch turns any exception into 400 with the message
LoginCatch(o) ==
    IF o.thrown THEN Outcome(bad(o.msg, "", 400), o.kv, o.obs) ELSE o

handleLogin(r, store, t, tok) == LoginCatch(LoginTry(r, store, t, tok))

(***************************************************************************)
(* POST /api/logout                                                        *)
(***************************************************************************)
\* a slip: the session record is left in the store
handleLogoutNoDestroy(r, store) ==
    LET token == getCookie(r, SESSION_COOKIE)
    IN  IF token.thrown THEN Throw("URIError", store, NoObs)
        ELSE Outcome(ok("", <<setCookie(SESSION_COOKIE, <<>>, Some(0))>>), store, NoObs)

handleLogout(r, store) ==
    LET token == getCookie(r, SESSION_COOKIE)
    IN  IF token.thrown THEN Throw("URIError", store, NoObs)
        ELSE Outcome(ok("", <<setCookie(SESSION_COOKIE, <<>>, Some(0))>>),
                     destroySession(store, token.v), NoObs)

(***************************************************************************)
(* The guard of /api/extract                                               *)
(***************************************************************************)
\* a slip: a request with a session is counted against the trial as well
GuardCountsSession(thrown, allowed, o, headers, error) ==
    [thrown |-> thrown, allowed |-> allowed, obs |-> o,
     headers |-> IF o.mode = "session"
                 THEN <<setCookie(TRIAL_COOKIE, <<"1">>, Some(TRIAL_MAX_AGE))>>
                 ELSE headers,
     error |-> error]

\* what guardExtract returns: { allowed, headers, session } or { allowed, resp }
Guard(thrown, allowed, o, headers, error) ==
    [thrown |-> thrown, allowed |-> allowed, obs |-> o, headers |-> headers,
     error |-> error]

\* a slip: the record's own expiration is not looked at
SessionValidNoExp(sess, t) == IsSome(sess)

\* sess && sess.exp > Math.floor(Date.now() / 1000)
SessionValid(sess, t) == IsSome(sess) /\ Val(sess).exp > t

guardExtract(r, store, t) ==
    LET sessToken == getCookie(r, SESSION_COOKIE)
        sess == getSession(store, sessToken.v)
    IN  IF sessToken.thrown THEN Guard(TRUE, FALSE, NoObs, <<>>, bad("", "", 0))
        ELSE IF SessionValid(sess, t)
        THEN Guard(FALSE, TRUE, Obs("session", Val(sess).username, Val(sess).roles, 0, 0),
                   <<>>, bad("", "", 0))
        ELSE
        LET used == readTrialCookie(r)
            newCount == used.n + 1
            cookie == setCookie(TRIAL_COOKIE, String(newCount), Some(TRIAL_MAX_AGE))
        IN  IF used.thrown THEN Guard(TRUE, FALSE, NoObs, <<>>, bad("", "", 0))
            ELSE IF trialExceeded(used.n)
            THEN Guard(FALSE, FALSE, Obs("rejected", "", <<>>, used.n, 0), <<>>,
                       bad("trial_exhausted", "Trial limit reached. Please login to continue.", 429))
            ELSE Guard(FALSE, TRUE, Obs("trial", "", <<>>, newCount, 0), <<cookie>>,
                       bad("", "", 0))

(***************************************************************************)
(* POST /api/extract                                                       *)
(***************************************************************************)
\* a slip: a failed call is made once more
extractWithGPTRetry(up) ==
    IF up = "ok" THEN [thrown |-> FALSE, msg |-> "", calls |-> 1]
    ELSE [thrown |-> TRUE, msg |-> "OpenAI error", calls |-> 2]

\* extractWithGPT: one call of the upstream API; it throws when the API
\* answers with a status that is not ok
extractWithGPT(up) ==
    IF up = "ok" THEN [thrown |-> FALSE, msg |-> "", calls |-> 1]
    ELSE [thrown |-> TRUE, msg |-> "OpenAI error", calls |-> 1]

WithUpstream(o, n) == [o EXCEPT !.upstream = n]

\* a slip: one page more than the limit still passes
TooManyPagesOffByOne(n) == n > MAX_PAGES + 1

\* imgs.length > 10
TooManyPages(n) == n > MAX_PAGES

\* handleExtract from the guard's answer on
ExtractGuarded(guard, r, store) ==
    IF guard.thrown THEN Throw("URIError", store, guard.obs)
    ELSE IF ~guard.allowed THEN Outcome(guard.error, store, guard.obs)
    ELSE IF guard.obs.mode = "trial" /\ r.imgs > 1
    THEN Outcome(bad("trial_one_page_only", "", 403), store, guard.obs)
    ELSE IF TooManyPages(r.imgs)
    THEN Outcome(bad("too_many_pages", "", 400), store, guard.obs)
    ELSE
    LET json == extractWithGPT(r.up)
    IN  IF json.thrown THEN Throw(json.msg, store, WithUpstream(guard.obs, json.calls))
        ELSE Outcome(Response(200, "", "json", guard.headers), store,
                     WithUpstream(guard.obs, json.calls))

handleExtract(r, store, t) == ExtractGuarded(guardExtract(r, store, t), r, store)

(***************************************************************************)
(* The router                                                              *)
(***************************************************************************)
\* fetch(req, env): the handler of the path, and the catch-all
Route(r, store, t, tok) ==
    CASE r.path = "/api/login" -> handleLogin(r, store, t, tok)
      [] r.path = "/api/logout" -> handleLogout(r, store)
      [] r.path = "/api/extract" -> handleExtract(r, store, t)
      [] OTHER -> Outcome(bad("not_found", "", 404), store, NoObs)

CatchAll(o) ==
    IF o.thrown THEN Outcome(bad("server_error", o.msg, 500), o.kv, o.obs) ELSE o

fetch(r, store, t, tok) == CatchAll(Route(r, store, t, tok))

(***************************************************************************)
(* The caller's cookie jar: a browser that stores what Set-Cookie tells it *)
(* (RFC 6265, 5.2 and 5.3) and sends back what it holds.                   *)
(* jar.sess and jar.trial are None or <<[v, exp]>>: the raw value and the  *)
(* instant the cookie expires at.                                          *)
(***************************************************************************)
\* the value of the last Max-Age attribute of a Set-Cookie header, None if none
LastMaxAge(h) ==
    LET at == {i \in 2..Len(h) :
                  h[i].k = <<"Max-Age">> /\ IsSome(h[i].v) /\ ~parseInt(Val(h[i].v)).nan}
        i == CHOOSE j \in at : \A m \in at : m <= j
    IN  IF at = {} THEN None ELSE Some(parseInt(Val(h[i].v)).n)

\* one Set-Cookie header applied: the cookie is the first part, its lifetime the
\* last Max-Age; a lifetime <= 0 removes the cookie
ApplySetCookie(j, h, t) ==
    LET name == h[1].k
        maxAge == LastMaxAge(h)
        entry == IF ~IsSome(h[1].v) THEN None
                 ELSE IF IsSome(maxAge) /\ Val(maxAge) <= 0 THEN None
                 ELSE Some([v |-> Val(h[1].v),
                            exp |-> IF IsSome(maxAge) THEN Some(t + Val(maxAge)) ELSE None])
    IN  IF name = <<SESSION_COOKIE>> THEN [j EXCEPT !.sess = entry]
        ELSE IF name = <<TRIAL_COOKIE>> THEN [j EXCEPT !.trial = entry]
        ELSE j

\* every Set-Cookie header of a response applied, in order
ApplyResponse(j, hs, t) ==
    LET after[i \in 0..Len(hs)] ==
            IF i = 0 THEN j ELSE ApplySetCookie(after[i - 1], hs[i], t)
    IN  after[Len(hs)]

\* the cookie has not expired at t
Live(c, t) == IsSome(c) /\ (IsSome(Val(c).exp) => t < Val(Val(c).exp))

\* the Cookie header the browser sends at t
JarCookies(j, t) ==
    [sess |-> IF Live(j.sess, t) THEN Some(Val(j.sess).v) ELSE None,
     trial |-> IF Live(j.trial, t) THEN Some(Val(j.trial).v) ELSE None]

Evict(j, t) ==
    [sess |-> IF Live(j.sess, t) THEN j.sess ELSE None,
     trial |-> IF Live(j.trial, t) THEN j.trial ELSE None]

\* the trial count the caller holds: what the server would read from its jar
HeldTrial(j, t) ==
    readTrialCookie([cookie |-> JarCookies(j, t)]).n

(***************************************************************************)
(* Credential records.  The worker reads salt, hash, iterations, expires   *)
(* and roles (handleLogin); tools/make-user.mjs writes role, quota,        *)
(* expires, status and one hash string that folds the digest name, the     *)
(* iteration count and the salt into it.                                   *)
(***************************************************************************)
Date(time) == Some([valid |-> TRUE, time |-> time])

InvalidDate == Some([valid |-> FALSE, time |-> 0])

\* a date later than every instant of the model (make-user's default 2099-12-31)
FarFuture == Date(100 * SESSION_TTL_SECONDS)

Salt == "c2FsdA=="

\* a record with the fields handleLogin reads
WorkerDoc(username, pw, expires, status, roles) ==
    [username |-> username, salt |-> Some(Salt), iterations |-> Some(TOOL_ITERATIONS),
     hash |-> Digest(pw, Salt, TOOL_ITERATIONS), expires |-> expires,
     roles |-> roles, role |-> None, status |-> status]

\* the record tools/make-user.mjs prints for (username, password)
ToolDoc(username, pw, role, expires) ==
    [username |-> username, salt |-> None, iterations |-> None,
     hash |-> [fmt |-> "pbkdf2$sha256$", pw |-> pw, salt |-> Salt, iter |-> TOOL_ITERATIONS],
     expires |-> expires, roles |-> None, role |-> Some(role), status |-> "active"]

\* the records user "a" may have been provisioned with; "b" never has one
UserDocs ==
    { WorkerDoc("a", "p", None, "active", Some(<<"user">>)),
      WorkerDoc("a", "p", Date(-1), "active", Some(<<"user">>)),
      WorkerDoc("a", "p", Date(1), "active", None),
      WorkerDoc("a", "p", None, "disabled", Some(<<"admin">>)),
      ToolDoc("a", "p", "user", FarFuture) }

(***************************************************************************)
(* Requests                                                                *)
(***************************************************************************)
Request(path, client, cookie, body, imgs, up) ==
    [path |-> path, client |-> client, cookie |-> cookie, body |-> body,
     imgs |-> imgs, up |-> up]

NoCookies == [sess |-> None, trial |-> None]

\* the JSON bodies of login requests; None is a body that is no JSON
Usernames == {None, Some("a"), Some(" a"), Some("b")}
Passwords == {None, Some("p"), Some("q")}
LoginBodies ==
    {None} \cup {Some([username |-> u, password |-> w]) : u \in Usernames, w \in Passwords}

\* raw values of the sess cookie: absent, a token, a broken escape
SessRaw ==
    {None, Some(<<"%">>)} \cup {Some(encodeURIComponent(k)) : k \in Tokens}

\* raw values of the trial cookie
TrialRaw ==
    {None, Some(<<"1">>), Some(<<"2">>), Some(<<"3">>), Some(<<"4">>),
     Some(<<"-", "1">>), Some(<<"x">>), Some(<<"%">>)}

\* numbers of images_dataurl[] fields of an extract request
ImageCounts == {0, 1, 2, MAX_PAGES, MAX_PAGES + 1}

\* what the upstream API answers
Upstream == {"ok", "fail"}

\* the cookies a request carries: the browser sends its jar, another client
\* sends what it likes
Cookies(client, sessSet, trialSet) ==
    IF client = "browser" THEN {JarCookies(jar, now)}
    ELSE {[sess |-> c, trial |-> d] : c \in sessSet, d \in trialSet}

(***************************************************************************)
(* The state machine.  req, resp and obs hold the exchange being looked at *)
(* (last names its handler); Settle ends it and the worker is idle again.  *)
(***************************************************************************)
NoRequest == Request("", "", NoCookies, None, 0, "ok")

NoResponse == bad("", "", 0)

\* the login handlers in progress (SpecInterleaved): none has started
Logins == {1, 2}

NoLogin == [pc |-> "idle", pw |-> "", doc |-> None, tok |-> None, status |-> 0,
            overlap |-> FALSE, live |-> FALSE]

NoLogins == [p \in Logins |-> NoLogin]

Init ==
    /\ \E docs \in {None} \cup {Some(d) : d \in UserDocs} :
          kv = IF IsSome(docs)
               THEN kvPut(<<>>, Key(USER_PREFIX, "a"), Val(docs), None)
               ELSE <<>>
    /\ now = 0
    /\ ticks = 0
    /\ jar = NoCookies
    /\ req = NoRequest
    /\ resp = NoResponse
    /\ obs = NoObs
    /\ last = "idle"
    /\ issued = [k \in Tokens |-> None]
    /\ calls = 0
    /\ pending = <<>>
    /\ forwarded = 0
    /\ revoked = {}
    /\ running = NoLogins
    /\ phase = 0

(***************************************************************************)
(* History, kept beside the program's state.                               *)
(* issued[k]: the last successful login that was given token k (when, for  *)
(* whom, with which roles of the credential record); None when there was   *)
(* none, or a logout presenting k has completed since, or the store has    *)
(* purged the entry.                                                       *)
(* calls: how many requests the browser has made, as long as each was an   *)
(* extract request with one image and none of its cookies has expired;     *)
(* -1 from then on.                                                        *)
(* pending: the responses sent to the browser that it has not received     *)
(* yet (SpecConcurrent).                                                   *)
(* forwarded: how many of the browser's extract requests reached the       *)
(* upstream API (SpecConcurrent).                                          *)
(* revoked: the pairs <<k, had>> of a token k that a completed logout has   *)
(* presented, with no successful login given k since, and whether that     *)
(* logout found a session record of k in the store (SpecLogout).           *)
(* running[p]: the login handler p in progress, at the await it has        *)
(* reached (pc), with what it holds in its local variables, whether it     *)
(* started while the other handler was in progress (overlap) and whether   *)
(* the session it created has not been logged out (live) (SpecInterleaved).*)
(* phase: how far the browser is in the sequence of exhausting its trial   *)
(* (1), logging in (2) and logging out (3) (SpecScenario).                 *)
(***************************************************************************)
LoginName(r) ==
    IF IsSome(r.body) /\ IsSome(Val(r.body).username)
    THEN Trim(Val(Val(r.body).username)) ELSE ""

LoginPassword(r) ==
    IF IsSome(r.body) /\ IsSome(Val(r.body).password)
    THEN Val(Val(r.body).password) ELSE ""

\* the credential record a login request names, None if there is none
LoginDoc(r, store) == kvGet(store, Key(USER_PREFIX, LoginName(r)))

\* the token a request presents in its sess cookie, None if it presents none
Presented(r) ==
    LET c == getCookie(r, SESSION_COOKIE)
    IN  IF c.thrown THEN None ELSE c.v

Issue(r, status, tok) ==
    IF r.path = "/api/login" /\ status = 200
    THEN [issued EXCEPT ![tok] =
            Some([at |-> now,
                  roles |-> IF IsSome(Val(LoginDoc(r, kv)).roles)
                            THEN Val(Val(LoginDoc(r, kv)).roles) ELSE <<>>,
                  username |-> LoginName(r)])]
    ELSE IF r.path = "/api/logout" /\ status = 200 /\ IsSome(Presented(r))
            /\ Val(Presented(r)) \in Tokens
    THEN [issued EXCEPT ![Val(Presented(r))] = None]
    ELSE issued

Count(r) ==
    IF r.client # "browser" THEN calls
    ELSE IF r.path = "/api/extract" /\ r.imgs = 1 /\ calls \in 0..3 THEN calls + 1
    ELSE -1

\* one request handled from its arrival to its response; the browser then
\* applies the response's Set-Cookie headers
Handle(r, tok, name) ==
    \E o \in {fetch(r, kv, now, tok)} :
        /\ req' = r
        /\ resp' = o.resp
        /\ obs' = o.obs
        /\ kv' = o.kv
        /\ jar' = IF r.client = "browser" THEN ApplyResponse(jar, o.resp.setCookie, now)
                  ELSE jar
        /\ last' = name
        /\ issued' = Issue(r, o.resp.status, tok)
        /\ calls' = Count(r)
        /\ UNCHANGED <<now, ticks>>

\* a request of Spec and SpecBrowser, which keep no other history
Serve(r, tok, name) == Handle(r, tok, name) /\ UNCHANGED aux

LoginBy(client) ==
    /\ last = "idle"
    /\ \E body \in LoginBodies, tok \in Tokens :
          \E c \in Cookies(client, {None}, {None}) :
             Serve(Request("/api/login", client, c, body, 0, "ok"), tok, "login")

LogoutBy(client) ==
    /\ last = "idle"
    /\ \E c \in Cookies(client, SessRaw \cup {Some(<<>>)}, {None}) :
          Serve(Request("/api/logout", client, c, None, 0, "ok"), Token(1), "logout")

ExtractBy(client) ==
    /\ last = "idle"
    /\ \E n \in ImageCounts :
          \E up \in (IF n > MAX_PAGES THEN {"ok"} ELSE Upstream),
             c \in Cookies(client, SessRaw, TrialRaw) :
             Serve(Request("/api/extract", client, c, None, n, up), Token(1), "extract")

\* the exchange is over
Settle ==
    /\ last # "idle"
    /\ req' = NoRequest
    /\ resp' = NoResponse
    /\ obs' = NoObs
    /\ last' = "idle"
    /\ UNCHANGED <<kv, now, ticks, jar, issued, calls, aux>>

\* time passes by one of steps; the browser drops the cookies that expired
Pass(steps) ==
    /\ last = "idle"
    /\ ticks < MaxTicks
    /\ \E d \in steps : now' = now + d
    /\ ticks' = ticks + 1
    /\ jar' = Evict(jar, now')
    /\ calls' = IF jar' = jar THEN calls ELSE -1
    /\ UNCHANGED <<kv, req, resp, obs, last, issued, aux>>

\* the store purges an entry whose expirationTtl has passed
Purge ==
    /\ last = "idle"
    /\ \E k \in DOMAIN kv :
          /\ IsSome(kv[k].expiration)
          /\ now >= Val(kv[k].expiration)
          /\ kv' = kvDelete(kv, k)
          /\ issued' = [issued EXCEPT ![k[2]] = None]
    /\ UNCHANGED <<now, ticks, jar, req, resp, obs, last, calls, aux>>

\* requests of callers that send whatever cookies they like
Login == LoginBy("other")
Logout == LogoutBy("other")
Extract == ExtractBy("other")

Tick == Pass({1, SESSION_TTL_SECONDS - 1})

Next == Login \/ Logout \/ Extract \/ Tick \/ Purge \/ Settle

Spec == Init /\ [][Next]_vars

\* requests of a browser, which sends the cookies it was given
BrowserLogin == LoginBy("browser")
BrowserLogout == LogoutBy("browser")
BrowserExtract == ExtractBy("browser")

BrowserTick == Pass({1, TRIAL_MAX_AGE, SESSION_TTL_SECONDS - 1})

NextBrowser ==
    BrowserLogin \/ BrowserLogout \/ BrowserExtract \/ BrowserTick \/ Purge \/ Settle

SpecBrowser == Init /\ [][NextBrowser]_vars

(***************************************************************************)
(* Logins against the records an administrator may have written: besides   *)
(* the intact ones, a record derived from the empty password, records with *)
(* a missing or undecodable salt, with no iteration count, with a digest   *)
(* of another algorithm, and the record of tools/make-user.mjs.            *)
(***************************************************************************)
Intact == WorkerDoc("a", "p", None, "active", Some(<<"user">>))

RecordDocs ==
    { Intact,
      WorkerDoc("a", "", None, "active", Some(<<"user">>)),
      WorkerDoc("a", "p", Date(-1), "disabled", Some(<<"user">>)),
      [Intact EXCEPT !.salt = None],
      [Intact EXCEPT !.salt = Some(BadSalt)],
      [Intact EXCEPT !.iterations = None],
      [Intact EXCEPT !.hash = [fmt |-> "b64-sha512", pw |-> "p", salt |-> Salt,
                               iter |-> TOOL_ITERATIONS]],
      ToolDoc("a", "p", "admin", FarFuture) }

\* login bodies with both fields; the password may be the empty text
RecordBodies ==
    {Some([username |-> Some(u), password |-> w]) :
        u \in {"a", " a", "b"}, w \in {None, Some(""), Some("p"), Some("q")}}

InitRecords ==
    /\ \E d \in RecordDocs : kv = kvPut(<<>>, Key(USER_PREFIX, "a"), d, None)
    /\ now = 0
    /\ ticks = 0
    /\ jar = NoCookies
    /\ req = NoRequest
    /\ resp = NoResponse
    /\ obs = NoObs
    /\ last = "idle"
    /\ issued = [k \in Tokens |-> None]
    /\ calls = 0
    /\ pending = <<>>
    /\ forwarded = 0
    /\ revoked = {}
    /\ running = NoLogins
    /\ phase = 0

RecordLogin ==
    /\ last = "idle"
    /\ \E body \in RecordBodies, tok \in Tokens :
          Serve(Request("/api/login", "other", NoCookies, body, 0, "ok"), tok, "login")

NextRecords == RecordLogin \/ Settle

SpecRecords == InitRecords /\ [][NextRecords]_vars

(***************************************************************************)
(* Logins, logouts and extract requests with the history of the logouts.   *)
(***************************************************************************)
Revoke(r, status, tok) ==
    IF r.path = "/api/login" /\ status = 200
    THEN revoked \ {<<tok, TRUE>>, <<tok, FALSE>>}
    ELSE IF r.path = "/api/logout" /\ status = 200 /\ IsSome(Presented(r))
            /\ Val(Presented(r)) \in Tokens
    THEN (revoked \ {<<Val(Presented(r)), TRUE>>, <<Val(Presented(r)), FALSE>>})
         \cup {<<Val(Presented(r)), Key(SESSION_PREFIX, Val(Presented(r))) \in DOMAIN kv>>}
    ELSE revoked

\* a request of SpecLogout
Tracked(r, tok, name) ==
    /\ Handle(r, tok, name)
    /\ revoked' = Revoke(r, resp'.status, tok)
    /\ UNCHANGED <<pending, forwarded, running, phase>>

TrackedLogin ==
    /\ last = "idle"
    /\ \E w \in {"p", "q"}, tok \in Tokens :
          Tracked(Request("/api/login", "other", NoCookies,
                          Some([username |-> Some("a"), password |-> Some(w)]), 0, "ok"),
                  tok, "login")

TrackedLogout ==
    /\ last = "idle"
    /\ \E c \in SessRaw :
          Tracked(Request("/api/logout", "other", [sess |-> c, trial |-> None], None, 0, "ok"),
                  Token(1), "logout")

TrackedExtract ==
    /\ last = "idle"
    /\ \E n \in {1, 2}, up \in Upstream, c \in SessRaw,
          d \in {None, Some(<<"3">>), Some(<<"%">>)} :
          Tracked(Request("/api/extract", "other", [sess |-> c, trial |-> d], None, n, up),
                  Token(1), "extract")

NextLogout == TrackedLogin \/ TrackedLogout \/ TrackedExtract \/ Tick \/ Purge \/ Settle

SpecLogout == Init /\ [][NextLogout]_vars

(***************************************************************************)
(* A browser that does not wait for a response before it sends its next    *)
(* request.  The worker handles each request when it arrives: a request of *)
(* a caller without a session reads and writes no shared state, so the     *)
(* order in which the worker finishes such requests makes no difference;   *)
(* what varies is which responses the browser has received when it sends.  *)
(***************************************************************************)
\* the browser sends an extract request with one image and the cookies it
\* holds now; the response stays in flight
ConcurrentSend ==
    /\ Len(pending) < MaxInFlight
    /\ forwarded < MaxForwarded
    /\ \E up \in Upstream :
          \E o \in {fetch(Request("/api/extract", "browser", JarCookies(jar, now),
                                  None, 1, up), kv, now, Token(1))} :
             /\ pending' = Append(pending, o.resp)
             /\ forwarded' = forwarded + o.obs.upstream
             /\ kv' = o.kv
    /\ UNCHANGED <<now, ticks, jar, req, resp, obs, last, issued, calls, revoked,
                   running, phase>>

\* a response in flight arrives, in any order; the browser applies its
\* Set-Cookie headers
Receive ==
    /\ \E i \in 1..Len(pending) :
          /\ jar' = ApplyResponse(jar, pending[i].setCookie, now)
          /\ pending' = SubSeq(pending, 1, i - 1) \o SubSeq(pending, i + 1, Len(pending))
    /\ UNCHANGED <<kv, now, ticks, req, resp, obs, last, issued, calls, forwarded, revoked,
                   running, phase>>

NextConcurrent == ConcurrentSend \/ Receive

SpecConcurrent == Init /\ [][NextConcurrent]_vars

(***************************************************************************)
(* Two login requests for user "a" handled at the same time.  handleLogin  *)
(* gives way at each await: after the body is read it waits for the        *)
(* credential record (get), then for the digest (hash), then for the put   *)
(* of createSession (put).  A handler's step runs alone; the steps of the  *)
(* two handlers, and the logout and extract requests of other callers,     *)
(* interleave in any order.                                                *)
(***************************************************************************)
InProgress(p) == running[p].pc \in {"get", "hash", "put"}

\* req.json() has returned a body with user name "a" and a password
LoginStart(p) ==
    /\ running[p].pc = "idle"
    /\ \E w \in {"p", "q"} :
          running' = [q \in Logins |->
                        IF q = p
                        THEN [running[p] EXCEPT !.pc = "get", !.pw = w,
                                                !.overlap = \E o \in Logins \ {p} : InProgress(o)]
                        ELSE IF InProgress(q) THEN [running[q] EXCEPT !.overlap = TRUE]
                        ELSE running[q]]
    /\ UNCHANGED <<kv, now, ticks, jar, req, resp, obs, last, issued, calls,
                   pending, forwarded, revoked, phase>>

\* env.USERS.get has returned: 401 without a record, 403 for an expired one
LoginGet(p) ==
    /\ running[p].pc = "get"
    /\ \E doc \in {kvGet(kv, Key(USER_PREFIX, "a"))} :
          running' = [running EXCEPT ![p] =
                        IF ~IsSome(doc) THEN [@ EXCEPT !.pc = "done", !.status = 401]
                        ELSE IF Expired(Val(doc), now)
                        THEN [@ EXCEPT !.pc = "done", !.status = 403]
                        ELSE [@ EXCEPT !.pc = "hash", !.doc = doc]]
    /\ UNCHANGED <<kv, now, ticks, jar, req, resp, obs, last, issued, calls,
                   pending, forwarded, revoked, phase>>

\* hashPasswordPBKDF2 has returned or thrown: 400 from the catch, 401 for
\* another digest than the record's
LoginHash(p) ==
    /\ running[p].pc = "hash"
    /\ \E derived \in {hashPasswordPBKDF2(running[p].pw, Val(running[p].doc).salt,
                                           Val(running[p].doc).iterations)} :
          running' = [running EXCEPT ![p] =
                        IF derived.thrown THEN [@ EXCEPT !.pc = "done", !.status = 400]
                        ELSE IF derived.v # Val(running[p].doc).hash
                        THEN [@ EXCEPT !.pc = "done", !.status = 401]
                        ELSE [@ EXCEPT !.pc = "put"]]
    /\ UNCHANGED <<kv, now, ticks, jar, req, resp, obs, last, issued, calls,
                   pending, forwarded, revoked, phase>>

\* createSession with the token b64Random returned, and the 200 response
LoginPut(p) ==
    /\ running[p].pc = "put"
    /\ \E tok \in Tokens :
          \E roles \in {IF IsSome(Val(running[p].doc).roles)
                        THEN Val(Val(running[p].doc).roles) ELSE <<>>} :
             /\ kv' = createSession(kv, now, "a", roles, tok).kv
             /\ issued' = [issued EXCEPT ![tok] =
                              Some([at |-> now, roles |-> roles, username |-> "a"])]
             /\ running' = [running EXCEPT ![p] =
                               [@ EXCEPT !.pc = "done", !.status = 200,
                                         !.tok = Some(tok), !.live = TRUE]]
    /\ UNCHANGED <<now, ticks, jar, req, resp, obs, last, calls,
                   pending, forwarded, revoked, phase>>

\* a logout presenting token k, handled in one step; the sessions given k
\* are logged out
InterleavedLogout ==
    /\ last = "idle"
    /\ \E k \in Tokens :
          /\ Handle(Request("/api/logout", "other",
                            [sess |-> Some(encodeURIComponent(k)), trial |-> None],
                            None, 0, "ok"), Token(1), "logout")
          /\ running' = [p \in Logins |->
                            IF running[p].tok = Some(k)
                            THEN [running[p] EXCEPT !.live = FALSE] ELSE running[p]]
    /\ UNCHANGED <<pending, forwarded, revoked, phase>>

\* an extract request with one image presenting token k, handled in one step
InterleavedExtract ==
    /\ last = "idle"
    /\ \E k \in Tokens, up \in Upstream :
          Serve(Request("/api/extract", "other",
                        [sess |-> Some(encodeURIComponent(k)), trial |-> None],
                        None, 1, up), Token(1), "extract")

NextInterleaved ==
    \/ \E p \in Logins : LoginStart(p) \/ LoginGet(p) \/ LoginHash(p) \/ LoginPut(p)
    \/ InterleavedLogout
    \/ InterleavedExtract
    \/ Settle

SpecInterleaved == Init /\ [][NextInterleaved]_vars

(***************************************************************************)
(* A browser that uses up its trial, logs in and logs out, with the        *)
(* history of how far it has come: phase 1 once it holds trial count 3,    *)
(* 2 after a login answered 200, 3 after a logout answered 200, 4 after    *)
(* an extract request that comes next, 5 after any other request then.     *)
(***************************************************************************)
Advance(r, status, held) ==
    CASE phase = 0 /\ r.path = "/api/extract" /\ held = TRIAL_LIMIT -> 1
      [] phase = 1 /\ r.path = "/api/login" /\ status = 200 -> 2
      [] phase = 2 /\ r.path = "/api/logout" /\ status = 200 -> 3
      [] phase = 3 /\ r.path = "/api/extract" -> 4
      [] phase = 3 /\ r.path # "/api/extract" -> 5
      [] phase = 4 -> 5
      [] OTHER -> phase

\* a request of SpecScenario
Scenario(r, tok, name) ==
    /\ Handle(r, tok, name)
    /\ phase' = Advance(r, resp'.status, HeldTrial(jar', now))
    /\ UNCHANGED <<pending, forwarded, revoked, running>>

ScenarioLogin ==
    /\ last = "idle"
    /\ \E w \in {"p", "q"}, tok \in Tokens :
          Scenario(Request("/api/login", "browser", JarCookies(jar, now),
                           Some([username |-> Some("a"), password |-> Some(w)]), 0, "ok"),
                   tok, "login")

ScenarioLogout ==
    /\ last = "idle"
    /\ Scenario(Request("/api/logout", "browser", JarCookies(jar, now), None, 0, "ok"),
                Token(1), "logout")

ScenarioExtract ==
    /\ last = "idle"
    /\ \E up \in Upstream :
          Scenario(Request("/api/extract", "browser", JarCookies(jar, now), None, 1, up),
                   Token(1), "extract")

NextScenario == ScenarioLogin \/ ScenarioLogout \/ ScenarioExtract \/ Settle

SpecScenario == Init /\ [][NextScenario]_vars

(***************************************************************************)
(* Logins and extract requests while an administrator rewrites the         *)
(* credential record of "a" in the store, outside the worker.              *)
(***************************************************************************)
\* the administrator puts another record under user:a
Reprovision ==
    /\ last = "idle"
    /\ \E d \in UserDocs :
          /\ kvGet(kv, Key(USER_PREFIX, "a")) # Some(d)
          /\ kv' = kvPut(kv, Key(USER_PREFIX, "a"), d, None)
    /\ UNCHANGED <<now, ticks, jar, req, resp, obs, last, issued, calls, aux>>

ProvisionedLogin ==
    /\ last = "idle"
    /\ \E w \in {"p", "q"}, tok \in Tokens :
          Serve(Request("/api/login", "other", NoCookies,
                        Some([username |-> Some("a"), password |-> Some(w)]), 0, "ok"),
                tok, "login")

ProvisionedExtract ==
    /\ last = "idle"
    /\ \E k \in Tokens, up \in Upstream :
          Serve(Request("/api/extract", "other",
                        [sess |-> Some(encodeURIComponent(k)), trial |-> None],
                        None, 1, up), Token(1), "extract")

NextProvisioned == Reprovision \/ ProvisionedLogin \/ ProvisionedExtract \/ Settle

SpecProvisioned == Init /\ [][NextProvisioned]_vars

(***************************************************************************)
(* Vocabulary of the properties                                            *)
(***************************************************************************)
\* the request presents a token of a login that has not been logged out and
\* is less than 30 days old
LoggedIn(r, t) ==
    LET p == Presented(r)
    IN  /\ IsSome(p)
        /\ Val(p) \in Tokens
        /\ IsSome(issued[Val(p)])
        /\ t < Val(issued[Val(p)]).at + 2592000

\* the sess cookie of the request, if any, can be decoded
SessDecodes(r) == ~getCookie(r, SESSION_COOKIE).thrown

\* the trial count a request's cookie states: 0 for no cookie; -1 when the
\* cookie is none of the counts 1 to 4
CookieCount(r) ==
    CASE r.cookie.trial = None -> 0
      [] r.cookie.trial = Some(<<"1">>) -> 1
      [] r.cookie.trial = Some(<<"2">>) -> 2
      [] r.cookie.trial = Some(<<"3">>) -> 3
      [] r.cookie.trial = Some(<<"4">>) -> 4
      [] OTHER -> -1

Rejected(rsp, status, error) ==
    rsp.status = status /\ rsp.error = error /\ rsp.setCookie = <<>>

\* the response sets the trial cookie to n (0 <= n <= 9)
CarriesTrial(rsp, n) ==
    \E i \in 1..Len(rsp.setCookie) :
        rsp.setCookie[i][1] = [k |-> <<"trial">>, v |-> Some(<<Digits[n + 1]>>)]

\* the store holds a session record
HoldsSession(store) == \E k \in DOMAIN store : k[1] = "session:"

(***************************************************************************)
(* C1: a browser that only ever sends extract requests with one image:     *)
(* its first, second and third request are allowed in trial mode and the   *)
(* response sets the trial cookie to 1, 2 and 3; its fourth is rejected    *)
(* with 429 trial_exhausted, sets no cookie, writes nothing to the store   *)
(* and calls the upstream API not at all.                                  *)
(* Violated: an upstream failure answers 500 without the trial cookie.     *)
(***************************************************************************)
C1_ScenarioA ==
    [][(last' = "extract" /\ req'.client = "browser" /\ calls' \in 1..4) =>
        IF calls' <= 3
        THEN obs'.mode = "trial" /\ CarriesTrial(resp', calls')
        ELSE /\ Rejected(resp', 429, "trial_exhausted")
             /\ kv' = kv /\ jar' = jar /\ obs'.upstream = 0]_vars

(***************************************************************************)
(* C2: a login that names a credential record whose status is disabled     *)
(* never returns 200 and leaves no session record in the store.            *)
(* Violated: handleLogin never reads status.                               *)
(***************************************************************************)
C2_DisabledNeverAuthenticates ==
    (last = "login" /\ IsSome(LoginDoc(req, kv))
        /\ Val(LoginDoc(req, kv)).status = "disabled") =>
    (resp.status # 200 /\ ~HoldsSession(kv))

(***************************************************************************)
(* C3, as claimed: a caller that is not logged in and sends 2 images is    *)
(* rejected with 403 trial_one_page_only whatever its trial count.         *)
(***************************************************************************)
C3_TwoImagesAlways403 ==
    (last = "extract" /\ req.imgs = 2 /\ CookieCount(req) >= 0
        /\ SessDecodes(req) /\ ~LoggedIn(req, now)) =>
    Rejected(resp, 403, "trial_one_page_only")

(***************************************************************************)
(* C3, amended: a caller that is not logged in and sends 2 images is       *)
(* rejected with 403 trial_one_page_only when its trial count is 0, 1 or   *)
(* 2, and with 429 trial_exhausted when it is 3 or more; the upstream API  *)
(* is not called.                                                          *)
(***************************************************************************)
C3_TwoImages ==
    (last = "extract" /\ req.imgs = 2 /\ CookieCount(req) >= 0
        /\ SessDecodes(req) /\ ~LoggedIn(req, now)) =>
    /\ obs.upstream = 0
    /\ IF CookieCount(req) < 3 THEN Rejected(resp, 403, "trial_one_page_only")
       ELSE Rejected(resp, 429, "trial_exhausted")

C3_Witness ==
    /\ last = "extract" /\ ~LoggedIn(req, now) /\ req.imgs = 2
    /\ CookieCount(req) = 3 /\ resp.status = 429

(***************************************************************************)
(* C4, as claimed: an extract request with 11 images is answered with 400  *)
(* too_many_pages in every mode, and the upstream API is not called.       *)
(***************************************************************************)
C4_ElevenImagesAlways400 ==
    (last = "extract" /\ req.imgs = 11 /\ SessDecodes(req)
        /\ (LoggedIn(req, now) \/ CookieCount(req) >= 0)) =>
    (Rejected(resp, 400, "too_many_pages") /\ obs.upstream = 0)

(***************************************************************************)
(* C4, amended: an extract request with 11 images never reaches the        *)
(* upstream API; it is answered with 400 too_many_pages with a valid       *)
(* session, with 403 trial_one_page_only in trial mode with quota left,    *)
(* and with 429 trial_exhausted once the trial is used up.                 *)
(***************************************************************************)
C4_ElevenImages ==
    (last = "extract" /\ req.imgs = 11 /\ SessDecodes(req)
        /\ (LoggedIn(req, now) \/ CookieCount(req) >= 0)) =>
    /\ obs.upstream = 0
    /\ IF LoggedIn(req, now) THEN Rejected(resp, 400, "too_many_pages")
       ELSE IF CookieCount(req) < 3 THEN Rejected(resp, 403, "trial_one_page_only")
       ELSE Rejected(resp, 429, "trial_exhausted")

C4_Witness ==
    /\ last = "extract" /\ LoggedIn(req, now) /\ req.imgs = 11
    /\ resp.status = 400 /\ obs.mode = "session"

(***************************************************************************)
(* C5: a login that names a credential record whose expires date is past   *)
(* and gives that record's password is answered with 403 account_expired;  *)
(* it sets no cookie and leaves the store as it was, so no session exists  *)
(* that did not exist before.                                              *)
(***************************************************************************)
C5_ExpiredLogin ==
    [][(/\ last' = "login"
        /\ IsSome(LoginDoc(req', kv))
        /\ IsSome(Val(LoginDoc(req', kv)).expires)
        /\ Val(Val(LoginDoc(req', kv)).expires).time < now
        /\ LoginPassword(req') = Val(LoginDoc(req', kv)).hash.pw) =>
       (Rejected(resp', 403, "account_expired") /\ kv' = kv)]_vars

C5_Witness ==
    /\ last = "login" /\ resp.status = 403
    /\ IsSome(LoginDoc(req, kv))
    /\ Val(Val(LoginDoc(req, kv)).expires).time < now
    /\ LoginPassword(req) = Val(LoginDoc(req, kv)).hash.pw

(***************************************************************************)
(* C6: a successful login answers with two separate Set-Cookie carriers,   *)
(* the first setting sess with a 30-day lifetime and the second clearing   *)
(* trial with Max-Age 0; the browser then holds the session token and no   *)
(* trial count.                                                            *)
(* Violated: both cookies are joined with a comma into one header.         *)
(***************************************************************************)
C6_TwoCarriers ==
    (last = "login" /\ req.client = "browser" /\ resp.status = 200) =>
    /\ Len(resp.setCookie) = 2
    /\ resp.setCookie[1][1].k = <<"sess">>
    /\ resp.setCookie[1][2] = [k |-> <<"Max-Age">>, v |-> Some(<<"2", "5", "9", "2", "0", "0", "0">>)]
    /\ resp.setCookie[2][1] = [k |-> <<"trial">>, v |-> Some(<<"0">>)]
    /\ resp.setCookie[2][2] = [k |-> <<"Max-Age">>, v |-> Some(<<"0">>)]
    /\ IsSome(jar.sess)
    /\ jar.trial = None

(***************************************************************************)
(* C7: an extract request that presents the token of a login not logged    *)
(* out and less than 30 days old, with 0 to 10 images, is classified as    *)
(* session mode and forwarded to the upstream API exactly once, whatever   *)
(* trial cookie it carries; the answer is 200 when the upstream API        *)
(* succeeds.                                                               *)
(***************************************************************************)
C7_SessionExtract ==
    (last = "extract" /\ req.imgs <= 10 /\ LoggedIn(req, now)) =>
    /\ obs.mode = "session"
    /\ obs.upstream = 1
    /\ (req.up = "ok" => resp.status = 200)

C7_Witness ==
    /\ last = "extract" /\ LoggedIn(req, now) /\ req.imgs = 10
    /\ req.cookie.trial = Some(<<"3">>)
    /\ obs.mode = "session" /\ obs.upstream = 1 /\ resp.status = 200

(***************************************************************************)
(* C8: a session created at time t authorizes a request, with the          *)
(* username and roles of its login, at every time before t + 30 days;      *)
(* from t + 30 days on a request presenting its token is not session       *)
(* mode, also while the record is still in the store.                      *)
(***************************************************************************)
C8_SessionLifetime ==
    \A k \in Tokens :
        (last = "extract" /\ req.cookie.sess # None /\ IsSome(issued[k])
            /\ Presented(req) = Some(k)) =>
        IF now < Val(issued[k]).at + 2592000
        THEN /\ obs.mode = "session"
             /\ obs.username = Val(issued[k]).username
             /\ obs.roles = Val(issued[k]).roles
        ELSE obs.mode # "session"

C8_Witness ==
    /\ last = "extract" /\ IsSome(Presented(req)) /\ Val(Presented(req)) \in Tokens
    /\ Key("session:", Val(Presented(req))) \in DOMAIN kv
    /\ now > kv[Key("session:", Val(Presented(req)))].val.exp
    /\ obs.mode = "trial"

(***************************************************************************)
(* C9: a logout request is answered with 200 and one Set-Cookie that       *)
(* clears sess with Max-Age 0, whatever cookies it carries.                *)
(* Violated: a sess cookie that cannot be decoded ends in 500.             *)
(***************************************************************************)
C9_LogoutAlwaysOk ==
    (last = "logout") =>
    /\ resp.status = 200
    /\ Len(resp.setCookie) = 1
    /\ resp.setCookie[1][1] = [k |-> <<"sess">>, v |-> Some(<<>>)]
    /\ resp.setCookie[1][2] = [k |-> <<"Max-Age">>, v |-> Some(<<"0">>)]

(***************************************************************************)
(* C10: destroySession is idempotent: on every store the gateway reaches   *)
(* (between requests or right after a logout; a request in progress has    *)
(* the store of the state it settles into) and for every token (absent,    *)
(* empty, issued or never issued), destroying twice leaves the store that  *)
(* destroying once leaves; the token's session is then absent and every    *)
(* other entry is as it was.                                               *)
(***************************************************************************)
C10_DestroyIdempotent ==
    last \in {"idle", "logout"} =>
    \A tok \in {None, Some(<<>>), Some(<<"n", "o">>)} \cup {Some(k) : k \in Tokens} :
        /\ destroySession(destroySession(kv, tok), tok) = destroySession(kv, tok)
        /\ (IsSome(tok) => <<"session:", Val(tok)>> \notin DOMAIN destroySession(kv, tok))
        /\ \A key \in DOMAIN kv :
            key # <<"session:", IF IsSome(tok) THEN Val(tok) ELSE <<>> >> =>
                /\ key \in DOMAIN destroySession(kv, tok)
                /\ destroySession(kv, tok)[key] = kv[key]
        /\ DOMAIN destroySession(kv, tok) \subseteq DOMAIN kv

C10_Witness ==
    /\ last = "logout" /\ resp.status = 200
    /\ IsSome(Presented(req)) /\ Val(Presented(req)) \in Tokens
    /\ <<"session:", Val(Presented(req))>> \notin DOMAIN kv
    /\ HoldsSession(kv)

\* the record has what hashPasswordPBKDF2 needs, and a SHA-256 digest
Usable(doc) ==
    /\ IsSome(doc.salt) /\ Val(doc.salt) # "c2Fs*"
    /\ IsSome(doc.iterations)
    /\ doc.hash.fmt = "b64"

\* the login request has a JSON body with a username and a password field
HasFields(r) ==
    IsSome(r.body) /\ IsSome(Val(r.body).username) /\ IsSome(Val(r.body).password)

(***************************************************************************)
(* C11: a login that names an existing, unexpired, active record with its  *)
(* salt, iteration count and SHA-256 digest in place returns 200 if and    *)
(* only if the password it submits is the one the digest was derived from, *)
(* the empty password included.                                            *)
(* Violated: the empty password is answered 400 before the record is read. *)
(***************************************************************************)
C11_LoginIffPassword ==
    (/\ last = "login" /\ HasFields(req)
     /\ IsSome(LoginDoc(req, kv))
     /\ Usable(Val(LoginDoc(req, kv)))
     /\ ~IsSome(Val(LoginDoc(req, kv)).expires)
     /\ Val(LoginDoc(req, kv)).status = "active") =>
    (resp.status = 200 <=> LoginPassword(req) = Val(LoginDoc(req, kv)).hash.pw)

(***************************************************************************)
(* C12: a login with the username and password of a record that            *)
(* tools/make-user.mjs produced returns 200, and the session it creates    *)
(* carries the role given to the tool.                                     *)
(* Violated: the record has no salt, iterations or roles field.            *)
(***************************************************************************)
C12_ToolRoundTrip ==
    (/\ last = "login" /\ HasFields(req)
     /\ IsSome(LoginDoc(req, kv))
     /\ IsSome(Val(LoginDoc(req, kv)).role)
     /\ LoginPassword(req) = Val(LoginDoc(req, kv)).hash.pw) =>
    (resp.status = 200 /\ obs.roles = <<Val(Val(LoginDoc(req, kv)).role)>>)

(***************************************************************************)
(* C13: a login with a username and a password that is not the password of *)
(* any record under that username is answered 401 invalid_credentials, the *)
(* same whether no record exists or one does, whatever the record's expiry *)
(* or status.                                                              *)
(* Violated: an expired record answers 403, a record login cannot read 400.*)
(***************************************************************************)
C13_NoEnumeration ==
    (/\ last = "login" /\ HasFields(req)
     /\ LoginName(req) # "" /\ LoginPassword(req) # ""
     /\ (IsSome(LoginDoc(req, kv)) =>
            LoginPassword(req) # Val(LoginDoc(req, kv)).hash.pw)) =>
    (Rejected(resp, 401, "invalid_credentials") /\ resp.detail = "")

(***************************************************************************)
(* C14: a login against a corrupted record (salt missing or undecodable,   *)
(* iteration count missing, digest of another algorithm) is answered 401   *)
(* invalid_credentials like a wrong password, with no other status and no  *)
(* exception message.                                                      *)
(* Violated: handleLogin's catch answers 400 with the exception's message. *)
(***************************************************************************)
C14_CorruptedRecord ==
    (/\ last = "login" /\ HasFields(req) /\ LoginPassword(req) # ""
     /\ IsSome(LoginDoc(req, kv))
     /\ ~Usable(Val(LoginDoc(req, kv)))) =>
    (Rejected(resp, 401, "invalid_credentials") /\ resp.detail = "")

(***************************************************************************)
(* C15: readTrialCookie does not throw and returns a non-negative integer  *)
(* for every trial cookie of a request: 0 when the cookie is absent, not a *)
(* number or negative, and the count it states otherwise; a request        *)
(* authorized in trial mode therefore has a new count of at least 1.       *)
(* Violated: "-1" is read as -1, and a broken escape throws.               *)
(***************************************************************************)
C15_ReadTrialNonNegative ==
    (last = "extract") =>
    /\ ~readTrialCookie(req).thrown
    /\ readTrialCookie(req).n >= 0
    /\ (CookieCount(req) >= 0 => readTrialCookie(req).n = CookieCount(req))
    /\ (req.cookie.trial \in {Some(<<"x">>), Some(<<"-", "1">>)} =>
            readTrialCookie(req).n = 0)
    /\ (obs.mode = "trial" => obs.count >= 1)

\* the handler of the request raises an exception
Raised(r, store, t) ==
    CASE r.path = "/api/login" -> LoginTry(r, store, t, Token(1)).thrown
      [] r.path = "/api/logout" -> handleLogout(r, store).thrown
      [] r.path = "/api/extract" -> handleExtract(r, store, t).thrown
      [] OTHER -> FALSE

(***************************************************************************)
(* C16: every request gets a response, and whenever its handler raises an  *)
(* exception the response is the router's 500 server_error; no handler     *)
(* turns an exception into another status.                                 *)
(* Violated: handleLogin catches its own exceptions and answers 400.       *)
(***************************************************************************)
C16_SingleCatchAll ==
    [][(last = "idle" /\ last' # "idle") =>
        /\ resp'.status # 0
        /\ (Raised(req', kv, now) =>
                resp'.status = 500 /\ resp'.error = "server_error")]_vars

(***************************************************************************)
(* C17: every response to an extract request that the guard authorized in  *)
(* trial mode sets the trial cookie to the request's count plus one,       *)
(* whatever the handler does afterwards.                                   *)
(* Violated: the 403, 400 and 500 answers are built without the cookie.    *)
(***************************************************************************)
C17_TrialCookieOnEveryResponse ==
    (last = "extract" /\ obs.mode = "trial" /\ CookieCount(req) >= 0) =>
    CarriesTrial(resp, CookieCount(req) + 1)

(***************************************************************************)
(* C18: of the extract requests of a browser without a session, which      *)
(* sends with each request the trial cookie of the response it received    *)
(* last, at most 3 reach the upstream API, also when it sends requests     *)
(* before the responses to earlier ones have arrived.                      *)
(* Violated: requests sent before any response arrives all carry count 0.  *)
(***************************************************************************)
C18_AtMostThreeForwarded == forwarded <= 3

(***************************************************************************)
(* C20: an extract or logout request never lowers the trial count the      *)
(* browser holds, a failed login leaves it as it is, and a successful      *)
(* login resets it to 0.                                                   *)
(* Violated: the browser does not see the trial=0 cookie of a login.       *)
(***************************************************************************)
C20_TrialMonotone ==
    [][(last = "idle" /\ last' # "idle") =>
        IF last' = "login" /\ resp'.status = 200
        THEN HeldTrial(jar', now) = 0
        ELSE HeldTrial(jar', now) >= HeldTrial(jar, now)]_vars

Given(rsp, k) ==
    /\ rsp.setCookie # <<>>
    /\ rsp.setCookie[1][1] = [k |-> <<SESSION_COOKIE>>, v |-> Some(encodeURIComponent(k))]

SessionKeys(store) == {j \in DOMAIN store : j[1] = SESSION_PREFIX}

UserKeys(store) == {j \in DOMAIN store : j[1] = USER_PREFIX}

(***************************************************************************)
(* C21 as stated: a successful login is never given a token that is the    *)
(* key of a session record in the store, and leaves every record of the    *)
(* store as it was.                                                        *)
(***************************************************************************)
C21_NeverOverwrites ==
    [][\A k \in Tokens :
          (last' = "login" /\ resp'.status = 200 /\ Given(resp', k)) =>
          /\ Key(SESSION_PREFIX, k) \notin DOMAIN kv
          /\ \A j \in DOMAIN kv : j \in DOMAIN kv' /\ kv'[j] = kv[j]]_vars

(***************************************************************************)
(* C21: createSession stores the record under the key of its token alone:  *)
(* when b64Random returns a token that is the key of no session record in  *)
(* the store, a successful login adds exactly the record of that token,    *)
(* for the user who logged in, and leaves every other record as it was.    *)
(* Nothing in createSession looks whether the token is in use.             *)
(***************************************************************************)
C21_FreshTokenOwnRecord ==
    [][\A k \in Tokens :
          (last' = "login" /\ resp'.status = 200 /\ Given(resp', k)
              /\ Key(SESSION_PREFIX, k) \notin DOMAIN kv) =>
          /\ DOMAIN kv' = DOMAIN kv \cup {Key(SESSION_PREFIX, k)}
          /\ \A j \in DOMAIN kv : kv'[j] = kv[j]
          /\ kv'[Key(SESSION_PREFIX, k)].val.username = LoginName(req')]_vars

\* a login was given Token(2) while the session of Token(1) is in the store
C21_Witness ==
    /\ last = "login" /\ resp.status = 200 /\ Given(resp, Token(2))
    /\ SessionKeys(kv) = {Key(SESSION_PREFIX, Token(1)), Key(SESSION_PREFIX, Token(2))}
    /\ IsSome(issued[Token(1)])

\* what holds of the two logins and of the sessions they created
C22_Sessions ==
    /\ \A p \in Logins :
          running[p].pc = "done" =>
          running[p].status =
              handleLogin(Request("/api/login", "other", NoCookies,
                                  Some([username |-> Some("a"),
                                        password |-> Some(running[p].pw)]), 0, "ok"),
                          kv, now, Token(1)).resp.status
    /\ \A p \in Logins :
          running[p].live =>
          /\ SessionValid(getSession(kv, running[p].tok), now)
          /\ Val(getSession(kv, running[p].tok)).username = "a"
    /\ Cardinality(SessionKeys(kv))
          >= Cardinality({running[p].tok : p \in {q \in Logins : running[q].live}})

C24_SessionProvenance ==
    [][\A j \in SessionKeys(kv') :
          (j \notin DOMAIN kv \/ kv'[j] # kv[j]) =>
          /\ last' = "login" /\ resp'.status = 200 /\ Given(resp', j[2])
          /\ kv'[j].val.username = LoginName(req')
          /\ IsSome(LoginDoc(req', kv))
          /\ LET doc == Val(LoginDoc(req', kv))
             IN  /\ IsSome(doc.expires) => Val(doc.expires).time >= now
                 /\ IsSome(doc.salt) /\ IsSome(doc.iterations)
                 /\ doc.hash = Digest(LoginPassword(req'), Val(doc.salt), Val(doc.iterations))]_vars

\* a login with the password of a record that expires later has created the
\* session of Token(1)
C24_Witness ==
    /\ last = "login" /\ resp.status = 200 /\ Given(resp, Token(1))
    /\ LoginPassword(req) = "p"
    /\ Val(LoginDoc(req, kv)).expires = Date(1)
    /\ kvGet(kv, Key(SESSION_PREFIX, Token(1))) # None
    /\ Val(kvGet(kv, Key(SESSION_PREFIX, Token(1)))).username = "a"

(***************************************************************************)
(* C25: handling one request makes at most one call of the upstream API    *)
(* (a call that fails is not made again), and none when the request is not *)
(* an extract or is answered 429 trial_exhausted, 403 trial_one_page_only  *)
(* or 400 too_many_pages.                                                  *)
(***************************************************************************)
C25_AtMostOneUpstreamCall ==
    [][last' # "idle" =>
          /\ obs'.upstream \in {0, 1}
          /\ last' # "extract" => obs'.upstream = 0
          /\ resp'.error \in {"trial_exhausted", "trial_one_page_only", "too_many_pages"}
                => obs'.upstream = 0
          /\ resp'.status \in {429, 403, 400} => obs'.upstream = 0]_vars

\* the upstream API failed: one call was made and the request answered 500
C25_Witness ==
    /\ last = "extract" /\ req.up = "fail" /\ resp.status = 500
    /\ obs.upstream = 1

(***************************************************************************)
(* C26: no step writes or deletes a credential record: the keys            *)
(* user:<username> of the store and the values under them are the same     *)
(* after every login, logout and extract (and after the store's purge).    *)
(***************************************************************************)
C26_CredentialsUntouched ==
    [][/\ UserKeys(kv') = UserKeys(kv)
       /\ \A j \in UserKeys(kv) : kv'[j] = kv[j]]_vars

\* a logout has been handled while a session of an earlier login is in the
\* store: the credential record of "a" is there
C26_Witness ==
    /\ last = "logout" /\ resp.status = 200
    /\ HoldsSession(kv)
    /\ kvGet(kv, Key(USER_PREFIX, "a")) # None

(***************************************************************************)
(* C27: a browser that has used up its trial (count 3), then logged in     *)
(* successfully and logged out, has its next extract request evaluated     *)
(* with count 0: it is allowed in trial mode with count 1, and when the    *)
(* upstream API answers, the response is 200 and sets trial=1.             *)
(* Violated: the browser takes Max-Age=0 for the sess cookie of the login  *)
(* response and never sees its trial=0, so it still holds trial=3.         *)
(***************************************************************************)
C27_TrialResetByLogin ==
    (phase = 4 /\ last = "extract") =>
    /\ obs.mode = "trial"
    /\ obs.count = 1
    /\ req.up = "ok" => (resp.status = 200 /\ CarriesTrial(resp, 1))

(***************************************************************************)
(* C28: an extract request presenting the token of a login is authorized   *)
(* in session mode with the user name of that login and the roles the      *)
(* credential record held when the login was handled, whatever record is   *)
(* under user:<username> by now.                                           *)
(***************************************************************************)
C28_RolesSnapshot ==
    \A k \in Tokens :
        (last = "extract" /\ IsSome(issued[k]) /\ Presented(req) = Some(k)) =>
        /\ obs.mode = "session"
        /\ obs.username = Val(issued[k]).username
        /\ obs.roles = Val(issued[k]).roles

\* a session of a login under the role "user" is served while the record
\* holds the role "admin"
C28_Witness ==
    \E k \in Tokens :
        /\ last = "extract" /\ Presented(req) = Some(k) /\ IsSome(issued[k])
        /\ obs.mode = "session" /\ obs.roles = <<"user">>
        /\ Val(issued[k]).roles = <<"user">>
        /\ Val(kvGet(kv, Key(USER_PREFIX, "a"))).roles = Some(<<"admin">>)

(***************************************************************************)
(* C29: a login that is not answered 200 is answered 400, 401 or 403,      *)
(* leaves the store as it was (no session record created or deleted) and   *)
(* its response sets no cookie, neither sess nor trial.                    *)
(***************************************************************************)
C29_FailedLoginNoEffect ==
    [][(last' = "login" /\ resp'.status # 200) =>
          /\ resp'.status \in {400, 401, 403}
          /\ kv' = kv
          /\ resp'.setCookie = <<>>]_vars

\* a login with a wrong password was answered 401 while a session is in the
\* store
C29_Witness ==
    /\ last = "login" /\ resp.status = 401
    /\ IsSome(LoginDoc(req, kv))
    /\ LoginPassword(req) # Val(LoginDoc(req, kv)).hash.pw
    /\ HoldsSession(kv)

(***************************************************************************)
(* C30: an extract request authorized in session mode leaves the store as  *)
(* it was and its response sets no cookie, so the trial cookie the caller  *)
(* holds stays as it is, whether the request is answered 200, 400 or 500.  *)
(***************************************************************************)
C30_SessionExtractNoTrace ==
    [][(last' = "extract" /\ obs'.mode = "session") =>
          /\ kv' = kv
          /\ resp'.setCookie = <<>>]_vars

\* a session request with 11 images and a trial cookie was answered 400
C30_Witness ==
    /\ last = "extract" /\ obs.mode = "session"
    /\ req.imgs = MAX_PAGES + 1 /\ resp.status = 400
    /\ req.cookie.trial = Some(<<"3">>)
====
